---- MODULE Spec2Model ----
(***************************************************************************)
(* Arctic Nord Dock: the event handlers of dock.c (handle_event,           *)
(* set_clipboard, handle_selection_request), the modal loop of             *)
(* context_menu.c (context_menu_show, format_color) and the swatch state   *)
(* of color_box.c, as one state machine.  One step of the machine is one   *)
(* event returned by XNextEvent together with everything the code does     *)
(* before it calls XNextEvent again.                                       *)
(***************************************************************************)
EXTENDS Integers, Sequences, FiniteSets, TLC

VARIABLES
    pc,                \* "start": main not yet run; "loop": main's while(1);
                       \* "menu": inside context_menu_show; "exited"
    resources,         \* the X resources the process holds
    exit_code,         \* the exit status of the process, Running before it exits
    display_height,    \* DisplayHeight(display, screen)
    display_width,     \* DisplayWidth(display, screen)
    app,               \* AppContext: rect_size, dock_width, dock_height
    color_boxes,       \* static ColorBox color_boxes[PALETTE_LENGTH]
    last_clicked_box,  \* static ColorBox *last_clicked_box (an index, or nullptr)
    current_format,    \* ColorFormat current_format
    clipboard_text,    \* static char clipboard_text[CLIPBOARD_BUFFER_SIZE], as a string
    owner,             \* TRUE when the dock window owns the CLIPBOARD selection
    menu_box,          \* handle_event's local `box` while context_menu_show runs
    hover_item,        \* context_menu_show's local hover_item
    lastEv,            \* the event the last step took from XNextEvent
    handler,           \* the function whose XNextEvent call returned lastEv
    out,               \* what the last step did: set_clipboard calls, notifies, ...
    last_commit,       \* history: the text of the most recent set_clipboard call
    menu_format        \* history: the last value context_menu_show returned >= 0

vars == <<pc, resources, exit_code, display_height, display_width, app, color_boxes, last_clicked_box, current_format,
          clipboard_text, owner, menu_box, hover_item, lastEv, handler, out,
          last_commit, menu_format>>

(***************************************************************************)
(* Program constants                                                       *)
(***************************************************************************)
PALETTE_LENGTH == 16
PADDING == 5
CLIPBOARD_BUFFER_SIZE == 64
MENU_ITEM_HEIGHT == 20
MENU_WIDTH == 80
FORMAT_COUNT == 8
FORMAT_HTML_HEX == 0
FORMAT_HSL == 4
DOCK_HEIGHT_MARGIN_PCT == 20
Button1 == 1
Button3 == 3
nullptr == -1
EXIT_SUCCESS == 0
EXIT_FAILURE == 1
\* The value of exit_code while the process runs.
Running == -1

\* The Arctic Nord palette, nord0 .. nord15 (0xRRGGBB).
colors ==
    <<3028032, 3883602, 4410462, 5002858, 14212841, 15067632, 15527924, 9419963,
      8962256, 8495553, 6193580, 12542314, 13666160, 15453067, 10731148, 11833005>>

(***************************************************************************)
(* Bounds of the model                                                     *)
(***************************************************************************)
\* Pointer events aim at the swatches 0 .. NumTargets-1 (and at the gaps
\* below them and at points left of the swatch column).
NumTargets == 2

\* Screen heights the display may have.
DisplayHeights == {1000}

\* Screen widths the display may have.
DisplayWidths == {1920}

\* The largest edge of a swatch the hit test is probed with, beside the edge
\* of DisplayHeights.
MaxHitEdge == 2

\* The longest text handed to set_clipboard by a direct call.
MaxTextLen == 64

\* The largest screen height the layout is computed for.
MaxDisplayHeight == 1080

(***************************************************************************)
(* C arithmetic                                                            *)
(***************************************************************************)
\* A uint32_t value is the pair <<high 16 bits, low 16 bits>>: the values of
\* the program exceed what the checker's integers hold once a negative int is
\* converted.  ToU32 is the conversion of an int to uint32_t (modulo 2^32).
Half == 256 * 256
ToU32(v) == <<(v \div Half) % Half, v % Half>>
U32Add(a, b) ==
    LET lo == a[2] + b[2]
        hi == a[1] + b[1] + (lo \div Half)
    IN  <<hi % Half, lo % Half>>
U32Le(a, b) == a[1] < b[1] \/ (a[1] = b[1] /\ a[2] <= b[2])
\* a - b modulo 2^32.
U32Sub(a, b) ==
    LET lo == a[2] - b[2]
        hi == a[1] - b[1] + (lo \div Half)
    IN  <<hi % Half, lo % Half>>
\* a / 2.
U32Half(a) == <<a[1] \div 2, (a[2] \div 2) + (a[1] % 2) * (Half \div 2)>>
\* The conversion of a uint32_t to int: values from 2^31 on wrap to negative.
U32ToInt(a) ==
    IF a[1] >= Half \div 2 THEN (a[1] - Half) * Half + a[2] ELSE a[1] * Half + a[2]

\* C integer division, truncating toward zero (b > 0).
CDiv(a, b) == IF a >= 0 THEN a \div b ELSE -((-a) \div b)

Max(a, b) == IF a >= b THEN a ELSE b
Min(a, b) == IF a <= b THEN a ELSE b

\* round(num/den) for num >= 0, den > 0: nearest integer, halves away from zero.
Round(num, den) == (2 * num + den) \div (2 * den)

(***************************************************************************)
(* The C type double: IEEE 754 binary64, round to nearest, ties to even.   *)
(* A value is [neg, m, e], standing for (-1)^neg * m * 2^e, with m = 0 or  *)
(* 2^52 <= m < 2^53.  A mantissa is a pair <<hi, lo>> of limbs of 29 bits, *)
(* hi * 2^29 + lo, which leaves room for the bits below the last place.    *)
(* The values format_color computes are neither subnormal nor infinite.    *)
(***************************************************************************)
Limb == 2^29

BigZero == <<0, 0>>
BigOne == <<0, 1>>
\* 2^52 and 2^53.
BigP52 == <<2^23, 0>>
BigP53 == <<2^24, 0>>

BigLt(a, b) == a[1] < b[1] \/ (a[1] = b[1] /\ a[2] < b[2])
BigAdd(a, b) ==
    LET lo == a[2] + b[2]
    IN  <<a[1] + b[1] + (lo \div Limb), lo % Limb>>
\* a - b for a >= b.
BigSub(a, b) ==
    LET lo == a[2] - b[2]
    IN  <<a[1] - b[1] + (lo \div Limb), lo % Limb>>
BigOdd(a) == a[2] % 2 = 1

\* a * 2^k for 0 <= k < 29, the product being below 2^58.
BigShl(a, k) ==
    <<a[1] * 2^k + (a[2] \div 2^(29 - k)), (a[2] % 2^(29 - k)) * 2^k>>

\* a \div 2^k for 0 <= k < 58.
BigShr(a, k) ==
    IF k >= 29 THEN <<0, a[1] \div 2^(k - 29)>>
    ELSE <<a[1] \div 2^k, (a[2] \div 2^k) + (a[1] % 2^k) * 2^(29 - k)>>

\* a % 2^k # 0 for k >= 0.
BigLowBits(a, k) ==
    IF k >= 58 THEN a # BigZero
    ELSE IF k >= 29 THEN a[2] # 0 \/ a[1] % 2^(k - 29) # 0
    ELSE a[2] % 2^k # 0

\* a shifted right by d bits; a bit shifted out sets the last bit kept.
ShiftRightJam(a, d) ==
    LET kept == IF d >= 58 THEN BigZero ELSE BigShr(a, d)
    IN  IF BigLowBits(a, d) /\ ~BigOdd(kept) THEN BigAdd(kept, BigOne) ELSE kept

\* The number of bits of a: the least k with a < 2^k.
BitLen(a) ==
    IF a[1] = 0 THEN CHOOSE k \in 0 .. 29 : a[2] < 2^k /\ (k = 0 \/ a[2] >= 2^(k - 1))
    ELSE 29 + (CHOOSE k \in 1 .. 29 : a[1] < 2^k /\ a[1] >= 2^(k - 1))

DZero == [neg |-> FALSE, m |-> BigZero, e |-> 0]

\* The operations on doubles are functions: a function is applied to the
\* values of its arguments, which keeps the evaluation of a nested
\* expression shallow.
BigValues == Nat \X Nat
LimbValues == Nat \X Nat \X Nat
DoubleValues == [neg : BOOLEAN, m : BigValues, e : Int]

\* The double nearest to (-1)^neg * a * 2^e, ties to even, for 0 <= a < 2^58.
DNormRound[neg \in BOOLEAN, a \in BigValues, e \in Int] ==
    LET len == BitLen(a)
        k == len - 53
        low == a[2] % (2^k)
        q == BigShr(a, k)
        up == 2 * low > 2^k \/ (2 * low = 2^k /\ BigOdd(q))
        qr == IF up THEN BigAdd(q, BigOne) ELSE q
    IN  IF a = BigZero THEN DZero
        ELSE IF len <= 24
             THEN [neg |-> neg, m |-> BigShl(<<a[2], 0>>, 24 - len), e |-> e - (53 - len)]
        ELSE IF len <= 53
             THEN [neg |-> neg, m |-> BigShl(a, 53 - len), e |-> e - (53 - len)]
        ELSE IF qr = BigP53
             THEN [neg |-> neg, m |-> BigP52, e |-> e + k + 1]
        ELSE [neg |-> neg, m |-> qr, e |-> e + k]

\* (double)n for an int n >= 0.
DOfInt(n) == DNormRound[FALSE, <<0, n>>, 0]

DIsZero(a) == a.m = BigZero
DIsNegative(a) == a.neg /\ a.m # BigZero
DNeg(a) == [a EXCEPT !.neg = ~a.neg]

\* a + b: the operand of the smaller magnitude is aligned to the other one
\* with three more bits, the last of them sticky.
DAdd[a \in DoubleValues, b \in DoubleValues] ==
    IF DIsZero(a) THEN b
    ELSE IF DIsZero(b) THEN a
    ELSE LET swap == a.e < b.e \/ (a.e = b.e /\ BigLt(a.m, b.m))
             x == IF swap THEN b ELSE a
             y == IF swap THEN a ELSE b
             xm == BigShl(x.m, 3)
             ym == ShiftRightJam(BigShl(y.m, 3), x.e - y.e)
         IN  DNormRound[x.neg,
                        IF x.neg = y.neg THEN BigAdd(xm, ym) ELSE BigSub(xm, ym),
                        x.e - 3]

DSub[a \in DoubleValues, b \in DoubleValues] == DAdd[a, DNeg(b)]

\* A number below 2^57 as three limbs of 19 bits, the highest first.
BigToLimbs(a) ==
    <<a[1] \div 2^9, (a[2] \div 2^19) + (a[1] % 2^9) * 2^10, a[2] % 2^19>>

\* The bits of n from bit 33 on.
LimbsTop(n) == n[1] * 32 + (n[2] \div 2^14)

LimbsGe(n, m) ==
    \/ n[1] > m[1]
    \/ (n[1] = m[1] /\ (n[2] > m[2] \/ (n[2] = m[2] /\ n[3] >= m[3])))

\* Eleven more bits of the quotient by den: st is <<quotient so far,
\* remainder>>, the remainder being less than den.  The digit estimated from
\* the leading bits is the digit or one less.
QuotientDigit[st \in BigValues \X LimbValues, den \in LimbValues] ==
    LET rem == st[2]
        d == (LimbsTop(rem) * 2048) \div (LimbsTop(den) + 1)
        t0 == rem[3] * 2048 - d * den[3]
        t1 == rem[2] * 2048 - d * den[2] + (t0 \div 2^19)
        t2 == rem[1] * 2048 - d * den[1] + (t1 \div 2^19)
        n == <<t2, t1 % 2^19, t0 % 2^19>>
        u0 == n[3] - den[3]
        u1 == n[2] - den[2] + (u0 \div 2^19)
        u2 == n[1] - den[1] + (u1 \div 2^19)
    IN  IF LimbsGe(n, den)
        THEN <<BigAdd(BigShl(st[1], 11), <<0, d + 1>>), <<u2, u1 % 2^19, u0 % 2^19>>>>
        ELSE <<BigAdd(BigShl(st[1], 11), <<0, d>>), n>>

\* n more digits of the quotient.
RECURSIVE QuotientDigits(_, _, _)
QuotientDigits(st, den, n) ==
    IF n = 0 THEN st ELSE QuotientDigit[QuotientDigits(st, den, n - 1), den]

\* a / b for b # 0: 56 bits of the quotient of the mantissas, the last one
\* sticky.
DDiv[a \in DoubleValues, b \in DoubleValues] ==
    IF DIsZero(a) THEN DZero
    ELSE LET first == IF BigLt(a.m, b.m) THEN <<BigZero, BigToLimbs(a.m)>>
                      ELSE <<BigOne, BigToLimbs(BigSub(a.m, b.m))>>
             last == QuotientDigits(first, BigToLimbs(b.m), 5)
             q == IF last[2] # <<0, 0, 0>> /\ ~BigOdd(last[1])
                  THEN BigAdd(last[1], BigOne)
                  ELSE last[1]
         IN  DNormRound[a.neg # b.neg, q, a.e - b.e - 55]

\* a < b for a, b >= 0.
DLt(a, b) ==
    /\ ~DIsZero(b)
    /\ \/ DIsZero(a)
       \/ a.e < b.e
       \/ (a.e = b.e /\ BigLt(a.m, b.m))

\* fmax and fmin of two doubles >= 0.
DMax(a, b) == IF DLt(a, b) THEN b ELSE a
DMin(a, b) == IF DLt(b, a) THEN b ELSE a

\* a * 60.0 and a * 100: 15 * 4 and 25 * 4.
DTimes60[a \in DoubleValues] ==
    DNormRound[a.neg, BigSub(BigShl(a.m, 4), a.m), a.e + 2]
DTimes100[a \in DoubleValues] ==
    DNormRound[a.neg, BigAdd(BigAdd(BigShl(a.m, 4), BigShl(a.m, 3)), a.m),
               a.e + 2]

\* a < 0.5 for a >= 0.
DLessHalf(a) == DIsZero(a) \/ a.e < -53

\* (int)round(a) for 0 <= a < 2^28: halves away from zero.
DRoundToInt[a \in DoubleValues] ==
    IF DIsZero(a) \/ a.e < -53 THEN 0
    ELSE LET above == BigShr(a.m, -a.e - 1)
         IN  (above[2] \div 2) + (above[2] % 2)

(***************************************************************************)
(* printf conversions                                                      *)
(***************************************************************************)
DecDigits == <<"0", "1", "2", "3", "4", "5", "6", "7", "8", "9">>
UpperHex == DecDigits \o <<"A", "B", "C", "D", "E", "F">>
LowerHex == DecDigits \o <<"a", "b", "c", "d", "e", "f">>

\* Mutant of Hex2Upper: "%X", without the padding to two digits.
Hex2UpperNoPad(n) ==
    IF n < 16 THEN UpperHex[n + 1]
    ELSE UpperHex[(n \div 16) + 1] \o UpperHex[(n % 16) + 1]

\* "%02X" and "%02x" of a value 0..255.
Hex2Upper(n) == UpperHex[(n \div 16) + 1] \o UpperHex[(n % 16) + 1]
Hex2Lower(n) == LowerHex[(n \div 16) + 1] \o LowerHex[(n % 16) + 1]

\* "%u" / "%d" of a value 0..999.
Dec(n) ==
    IF n < 10 THEN DecDigits[n + 1]
    ELSE IF n < 100 THEN DecDigits[(n \div 10) + 1] \o DecDigits[(n % 10) + 1]
    ELSE DecDigits[(n \div 100) + 1] \o DecDigits[((n \div 10) % 10) + 1]
             \o DecDigits[(n % 10) + 1]

\* "%.2f" of c / 255.0 for a channel c in 0..255: c/255 is never halfway
\* between two hundredths, so the nearest hundredth is the printed value.
Fix2(c) ==
    LET h == Round(c * 100, 255)
    IN  DecDigits[(h \div 100) + 1] \o "." \o DecDigits[((h \div 10) % 10) + 1]
            \o DecDigits[(h % 10) + 1]

\* snprintf(buf, buf_size, ...) for buf_size >= 1, as every caller passes:
\* at most buf_size - 1 characters are stored.
Snprintf(s, buf_size) ==
    IF Len(s) <= buf_size - 1 THEN s ELSE SubSeq(s, 1, buf_size - 1)

(***************************************************************************)
(* context_menu.c: format_color                                            *)
(***************************************************************************)
Red(color) == (color \div 65536) % 256
Green(color) == (color \div 256) % 256
Blue(color) == color % 256

\* Mutant of HslText: the lightness is the largest channel alone.
HslTextValue(r, g, b) ==
    LET max == Max(r, Max(g, b))
        min == Min(r, Min(g, b))
        delta == max - min
        l == Round(max * 100, 255)
        sden == IF max + min < 255 THEN max + min ELSE 510 - max - min
        s == IF delta # 0 THEN Round(100 * delta, sden) ELSE 0
        hraw == IF max = r THEN 60 * (g - b)
                ELSE IF max = g THEN 120 * delta + 60 * (b - r)
                ELSE 240 * delta + 60 * (r - g)
        hnum == IF hraw < 0 THEN hraw + 360 * delta ELSE hraw
        h == IF delta # 0 THEN Round(hnum, delta) ELSE 0
    IN  "hsl(" \o Dec(h) \o ", " \o Dec(s) \o "%, " \o Dec(l) \o "%);"

\* The FORMAT_HSL case, in the double arithmetic of the code.  Each step is
\* a function of the values computed before it.

\* h after "h *= 60.0": a negative hue is moved up by 360.0.
HslWrap[h \in DoubleValues] ==
    IF DIsNegative(h) THEN DAdd[h, DOfInt(360)] ELSE h

\* h, in degrees.
HslHue[r_norm, g_norm, b_norm, max, delta \in DoubleValues] ==
    IF DIsZero(delta) THEN DZero
    ELSE HslWrap[DTimes60[
             IF max = r_norm THEN DDiv[DSub[g_norm, b_norm], delta]
             ELSE IF max = g_norm
                  THEN DAdd[DOfInt(2), DDiv[DSub[b_norm, r_norm], delta]]
             ELSE DAdd[DOfInt(4), DDiv[DSub[r_norm, g_norm], delta]]]]

\* s, as a fraction.
HslSaturation[max, min, delta, l \in DoubleValues] ==
    IF DIsZero(delta) THEN DZero
    ELSE IF DLessHalf(l) THEN DDiv[delta, DAdd[max, min]]
    ELSE DDiv[delta, DSub[DSub[DOfInt(2), max], min]]

\* The text, delta and l being known.
HslPrint[r_norm, g_norm, b_norm, max, min, delta, l \in DoubleValues] ==
    "hsl(" \o Dec(DRoundToInt[HslHue[r_norm, g_norm, b_norm, max, delta]])
        \o ", " \o Dec(DRoundToInt[DTimes100[HslSaturation[max, min, delta, l]]])
        \o "%, " \o Dec(DRoundToInt[DTimes100[l]]) \o "%);"

\* The text, max and min being known.
HslRange[r_norm, g_norm, b_norm, max, min \in DoubleValues] ==
    HslPrint[r_norm, g_norm, b_norm, max, min,
             DSub[max, min], DDiv[DAdd[max, min], DOfInt(2)]]

\* The text, the three quotients being known.
HslNorm[r_norm, g_norm, b_norm \in DoubleValues] ==
    HslRange[r_norm, g_norm, b_norm,
             DMax(r_norm, DMax(g_norm, b_norm)),
             DMin(r_norm, DMin(g_norm, b_norm))]

HslText(r, g, b) ==
    HslNorm[DDiv[DOfInt(r), DOfInt(255)], DDiv[DOfInt(g), DOfInt(255)],
            DDiv[DOfInt(b), DOfInt(255)]]

FloatTriple(r, g, b) == Fix2(r) \o "f, " \o Fix2(g) \o "f, " \o Fix2(b) \o "f"

format_color(color, format, buf_size) ==
    LET r == Red(color)
        g == Green(color)
        b == Blue(color)
        text ==
            CASE format = 0 -> "#" \o Hex2Upper(r) \o Hex2Upper(g) \o Hex2Upper(b)
              [] format = 1 -> "0x" \o Hex2Lower(r) \o Hex2Lower(g) \o Hex2Lower(b)
              [] format = 2 -> "rgb(" \o Dec(r) \o ", " \o Dec(g) \o ", " \o Dec(b) \o ");"
              [] format = 3 -> "rgba(" \o Dec(r) \o ", " \o Dec(g) \o ", " \o Dec(b)
                                   \o ", 1);"
              [] format = 4 -> HslText(r, g, b)
              [] format = 5 -> FloatTriple(r, g, b)
              [] format = 6 -> "vec3(" \o FloatTriple(r, g, b) \o ")"
              [] format = 7 -> "vec4(" \o FloatTriple(r, g, b) \o ", 1.00f)"
              [] OTHER -> ""
    IN  Snprintf(text, buf_size)

(***************************************************************************)
(* main.c: the layout, and color_box.c: the swatches                       *)
(***************************************************************************)
\* The position XMoveWindow gives the dock window in initialize_dock.
\* Both differences are uint32_t, app.dock_width and app.dock_height being
\* ones, and are converted to int.
WindowOrigin ==
    <<U32ToInt(U32Sub(ToU32(display_width), ToU32(app.dock_width))),
      CDiv(U32ToInt(U32Sub(ToU32(display_height), ToU32(app.dock_height))), 2)>>

\* Mutant of RectSize: the margin is not taken off the screen height.
RectSizeNoMargin(h) == h \div PALETTE_LENGTH

\* app.rect_size = (uint32_t)((display_height - 0.20 * display_height) / 16)
RectSize(h) == ((100 - DOCK_HEIGHT_MARGIN_PCT) * h) \div (100 * PALETTE_LENGTH)

Layout(h) ==
    [rect_size |-> RectSize(h),
     dock_width |-> 2 * PADDING + RectSize(h),
     dock_height |-> PALETTE_LENGTH * (RectSize(h) + PADDING) + PADDING]

Boxes == 0 .. (PALETTE_LENGTH - 1)

\* Mutant of initialize_color_boxes: the swatches are stacked without the
\* padding between them.
initialize_color_boxes_nogap(rect_size) ==
    [i \in Boxes |->
        [x |-> PADDING,
         y |-> PADDING + i * rect_size,
         color |-> colors[i + 1],
         is_clicked |-> FALSE]]

initialize_color_boxes(rect_size) ==
    [i \in Boxes |->
        [x |-> PADDING,
         y |-> PADDING + i * (rect_size + PADDING),
         color |-> colors[i + 1],
         is_clicked |-> FALSE]]

\* x and y are uint32_t values; the box's own fields are small.
is_point_inside_box(x, y, box) ==
    /\ box # nullptr
    /\ U32Le(ToU32(color_boxes[box].x), x)
    /\ U32Le(x, U32Add(ToU32(color_boxes[box].x), ToU32(app.rect_size)))
    /\ U32Le(ToU32(color_boxes[box].y), y)
    /\ U32Le(y, U32Add(ToU32(color_boxes[box].y), ToU32(app.rect_size)))

\* find_box's loop from index i on: the first box containing the point, or
\* nullptr.
RECURSIVE FindBoxFrom(_, _, _)
FindBoxFrom(i, x, y) ==
    IF i >= PALETTE_LENGTH THEN nullptr
    ELSE IF is_point_inside_box(x, y, i) THEN i
    ELSE FindBoxFrom(i + 1, x, y)

\* The arguments are the event's int coordinates, converted to uint32_t by
\* the call.
find_box(x, y) == FindBoxFrom(0, ToU32(x), ToU32(y))

get_last_clicked_box == last_clicked_box

\* colorbox_on_release(box): the boxes after the call.
colorbox_on_release(box) ==
    IF box = nullptr THEN color_boxes
    ELSE [color_boxes EXCEPT ![box].is_clicked = FALSE]

(***************************************************************************)
(* What one step does to the outside, and the events                       *)
(***************************************************************************)
NoOut ==
    [draws |-> <<>>,       \* draw_colorbox calls (the box painted)
     returns |-> <<>>,     \* the value context_menu_show returned, if it returned
     commits |-> <<>>,     \* texts passed to set_clipboard
     asserts |-> <<>>,     \* XSetSelectionOwner calls (the window named owner)
     winprops |-> <<>>,    \* XChangeProperty on the dock window (the data)
     errs |-> <<>>,        \* lines written to stderr
     props |-> <<>>,       \* XChangeProperty on a requestor
     notifies |-> <<>>,    \* XSendEvent of a SelectionNotify
     menus |-> <<>>,       \* XCreateWindow of a menu window (its rectangle)
     menu_draws |-> <<>>,  \* draw_context_menu calls of the loop (the hover_item painted)
     texts |-> <<>>]       \* what a direct format_color call left in its buffer

DockWin == "dock"
MenuWin == "menu"

\* Points of pointer events on the dock window: the top left corner of each
\* target swatch, a point in the gap below the first swatch, and a point
\* left of the window (a negative x, as delivered while the pointer is
\* grabbed).
SwatchOrigin(i) == <<PADDING, PADDING + i * (app.rect_size + PADDING)>>
Points ==
    {SwatchOrigin(i) : i \in 0 .. (NumTargets - 1)}
        \cup {<<PADDING, PADDING + app.rect_size + 1>>, <<-1, PADDING>>}

\* A button handle_event has no branch for.
OtherButtons == {2}

ButtonEvents(type, buttons, points) ==
    {[type |-> type, window |-> DockWin, button |-> b, x |-> p[1], y |-> p[2]] :
        b \in buttons, p \in points}

MotionEvents(points) ==
    {[type |-> "MotionNotify", window |-> DockWin, x |-> p[1], y |-> p[2]] :
        p \in points}

Targets == {"TARGETS", "STRING", "UTF8_STRING", "COMPOUND_TEXT", "TIMESTAMP"}
Properties == {"PROP_A", "PROP_B"}
Requestors == {"peer"}

SelectionRequests ==
    {[type |-> "SelectionRequest", window |-> DockWin, requestor |-> w,
      selection |-> "CLIPBOARD", target |-> t, property |-> p] :
        w \in Requestors, t \in Targets, p \in Properties}

ClientMessages ==
    {[type |-> "ClientMessage", window |-> DockWin, data0 |-> d] :
        d \in {"WM_DELETE_WINDOW", "_NET_WM_PING"}}

ExposeEvents(w) == {[type |-> "Expose", window |-> w, count |-> c] : c \in {0, 1}}

\* Events handle_event has no case for.
OtherEvents ==
    {[type |-> t, window |-> DockWin] : t \in {"SelectionClear", "PropertyNotify"}}

(***************************************************************************)
(* dock.c: set_clipboard and handle_selection_request                      *)
(***************************************************************************)
\* Mutant of Strncpy: the copy is not cut at n characters.
StrncpyUnbounded(text, n) == text

\* strncpy(dst, text, n) followed by dst[n] = '\0'.
Strncpy(text, n) == IF Len(text) <= n THEN text ELSE SubSeq(text, 1, n)

\* Mutant of set_clipboard: the buffer is written only while the dock does
\* not own the selection yet, so it keeps the text of the first commit.
set_clipboard_keep_first(text, owns) ==
    LET buf == IF owner THEN clipboard_text
               ELSE Strncpy(text, CLIPBOARD_BUFFER_SIZE - 1)
    IN  [clipboard_text |-> buf,
         owner |-> owns,
         last_commit |-> text,
         out |-> [NoOut EXCEPT
                    !.commits = <<text>>,
                    !.asserts = <<DockWin>>,
                    !.errs = IF owns THEN <<>>
                             ELSE <<"Failed to set clipboard owner">>,
                    !.winprops = IF owns THEN <<buf>> ELSE <<>>]]

\* Mutant of set_clipboard: the ownership is asserted before the copy, and a
\* failed assertion returns with the buffer untouched.
set_clipboard_assert_first(text, owns) ==
    LET buf == IF owns THEN Strncpy(text, CLIPBOARD_BUFFER_SIZE - 1)
               ELSE clipboard_text
    IN  [clipboard_text |-> buf,
         owner |-> owns,
         last_commit |-> text,
         out |-> [NoOut EXCEPT
                    !.commits = <<text>>,
                    !.asserts = <<DockWin>>,
                    !.errs = IF owns THEN <<>>
                             ELSE <<"Failed to set clipboard owner">>,
                    !.winprops = IF owns THEN <<buf>> ELSE <<>>]]

\* set_clipboard(text): the buffer, the ownership and the effects after the
\* call.  owns: XGetSelectionOwner reads back the dock window.
set_clipboard(text, owns) ==
    LET buf == Strncpy(text, CLIPBOARD_BUFFER_SIZE - 1)
    IN  [clipboard_text |-> buf,
         owner |-> owns,
         last_commit |-> text,
         out |-> [NoOut EXCEPT
                    !.commits = <<text>>,
                    !.asserts = <<DockWin>>,
                    !.errs = IF owns THEN <<>>
                             ELSE <<"Failed to set clipboard owner">>,
                    !.winprops = IF owns THEN <<buf>> ELSE <<>>]]

\* Mutant of copy_color_from_box: the color is always formatted as HTML hex.
copy_color_from_box_html(box, format, owns) ==
    IF box = nullptr
    THEN [clipboard_text |-> clipboard_text, owner |-> owner,
          last_commit |-> last_commit, out |-> NoOut]
    ELSE set_clipboard(format_color(color_boxes[box].color, FORMAT_HTML_HEX,
                                    CLIPBOARD_BUFFER_SIZE), owns)

\* copy_color_from_box(box), format being the value of current_format at
\* the call.
copy_color_from_box(box, format, owns) ==
    IF box = nullptr
    THEN [clipboard_text |-> clipboard_text, owner |-> owner,
          last_commit |-> last_commit, out |-> NoOut]
    ELSE set_clipboard(format_color(color_boxes[box].color, format,
                                    CLIPBOARD_BUFFER_SIZE), owns)

SupportedTargets == <<"TARGETS", "STRING", "UTF8_STRING", "COMPOUND_TEXT">>

\* Mutant of handle_selection_request: TARGETS is answered without the
\* TARGETS atom itself.
handle_selection_request_short(req) ==
    LET notify == [type |-> "SelectionNotify", requestor |-> req.requestor,
                   selection |-> req.selection, target |-> req.target,
                   property |-> req.property]
    IN  IF req.target = "TARGETS"
        THEN [NoOut EXCEPT
                !.props = <<[window |-> req.requestor, property |-> req.property,
                             type |-> "ATOM", format |-> 32,
                             data |-> Tail(SupportedTargets)]>>,
                !.notifies = <<[to |-> req.requestor, event |-> notify]>>]
        ELSE IF req.target \in {"STRING", "UTF8_STRING", "COMPOUND_TEXT"}
        THEN [NoOut EXCEPT
                !.props = <<[window |-> req.requestor, property |-> req.property,
                             type |-> req.target, format |-> 8,
                             data |-> clipboard_text]>>,
                !.notifies = <<[to |-> req.requestor, event |-> notify]>>]
        ELSE [NoOut EXCEPT
                !.notifies = <<[to |-> req.requestor,
                                event |-> [notify EXCEPT !.property = "None"]]>>]

\* Mutant of handle_selection_request: a request for an unsupported target
\* is dropped without a SelectionNotify.
handle_selection_request_silent(req) ==
    LET notify == [type |-> "SelectionNotify", requestor |-> req.requestor,
                   selection |-> req.selection, target |-> req.target,
                   property |-> req.property]
    IN  IF req.target = "TARGETS"
        THEN [NoOut EXCEPT
                !.props = <<[window |-> req.requestor, property |-> req.property,
                             type |-> "ATOM", format |-> 32,
                             data |-> SupportedTargets]>>,
                !.notifies = <<[to |-> req.requestor, event |-> notify]>>]
        ELSE IF req.target \in {"STRING", "UTF8_STRING", "COMPOUND_TEXT"}
        THEN [NoOut EXCEPT
                !.props = <<[window |-> req.requestor, property |-> req.property,
                             type |-> req.target, format |-> 8,
                             data |-> clipboard_text]>>,
                !.notifies = <<[to |-> req.requestor, event |-> notify]>>]
        ELSE NoOut

\* handle_selection_request(req): the effects of the call.
handle_selection_request(req) ==
    LET notify == [type |-> "SelectionNotify", requestor |-> req.requestor,
                   selection |-> req.selection, target |-> req.target,
                   property |-> req.property]
    IN  IF req.target = "TARGETS"
        THEN [NoOut EXCEPT
                !.props = <<[window |-> req.requestor, property |-> req.property,
                             type |-> "ATOM", format |-> 32,
                             data |-> SupportedTargets]>>,
                !.notifies = <<[to |-> req.requestor, event |-> notify]>>]
        ELSE IF req.target \in {"STRING", "UTF8_STRING", "COMPOUND_TEXT"}
        THEN [NoOut EXCEPT
                !.props = <<[window |-> req.requestor, property |-> req.property,
                             type |-> req.target, format |-> 8,
                             data |-> clipboard_text]>>,
                !.notifies = <<[to |-> req.requestor, event |-> notify]>>]
        ELSE [NoOut EXCEPT
                !.notifies = <<[to |-> req.requestor,
                                event |-> [notify EXCEPT !.property = "None"]]>>]

(***************************************************************************)
(* The initial state: main() up to its event loop                          *)
(***************************************************************************)
NoEvent == [type |-> "None", window |-> DockWin]

\* The process before main runs: objects of static storage are zero.
Init ==
    /\ pc = "start"
    /\ resources = {}
    /\ exit_code = Running
    /\ display_height = 0
    /\ display_width = 0
    /\ app = [rect_size |-> 0, dock_width |-> 0, dock_height |-> 0]
    /\ color_boxes = [i \in Boxes |-> [x |-> 0, y |-> 0, color |-> 0,
                                       is_clicked |-> FALSE]]
    /\ last_clicked_box = nullptr
    /\ current_format = FORMAT_HTML_HEX
    /\ clipboard_text = ""
    /\ owner = FALSE
    /\ menu_box = nullptr
    /\ hover_item = -1
    /\ lastEv = NoEvent
    /\ handler = "main"
    /\ out = NoOut
    /\ last_commit = ""
    /\ menu_format = -1

process == <<resources, exit_code>>
layout == <<display_height, display_width, app>>
swatches == <<color_boxes, last_clicked_box>>
clipboard == <<clipboard_text, owner, last_commit>>
format == <<current_format, menu_format>>
session == <<pc, menu_box, hover_item>>

\* What XOpenDisplay and the calls of initialize_dock can answer.
StartupOutcomes == {"ok", "no_display", "no_visual", "no_window", "no_gc"}

\* Mutant of initialize_dock: the window is not destroyed when XCreateGC
\* fails.
initialize_dock_leaky(outcome) ==
    IF outcome = "no_visual"
    THEN [ret |-> -1, resources |-> {"display"},
          errs |-> <<"Failed to obtain matching visual info.">>]
    ELSE IF outcome = "no_window"
    THEN [ret |-> -1, resources |-> {"display"},
          errs |-> <<"Failed to create window.">>]
    ELSE IF outcome = "no_gc"
    THEN [ret |-> -1, resources |-> {"display", "window"},
          errs |-> <<"Failed to create graphics context.">>]
    ELSE [ret |-> 0, resources |-> {"display", "window", "gc"}, errs |-> <<>>]

\* initialize_dock(display, dock_width, dock_height), entered holding the
\* display connection: its return value, the resources held when it returns
\* and what it wrote to stderr.
initialize_dock(outcome) ==
    IF outcome = "no_visual"
    THEN [ret |-> -1, resources |-> {"display"},
          errs |-> <<"Failed to obtain matching visual info.">>]
    ELSE IF outcome = "no_window"
    THEN [ret |-> -1, resources |-> {"display"},
          errs |-> <<"Failed to create window.">>]
    ELSE IF outcome = "no_gc"
    THEN [ret |-> -1, resources |-> ({"display", "window"}) \ {"window"},
          errs |-> <<"Failed to create graphics context.">>]
    ELSE [ret |-> 0, resources |-> {"display", "window", "gc"}, errs |-> <<>>]

\* cleanup_dock(): the resources still held after it.
cleanup_dock(held) ==
    LET no_gc == IF "gc" \in held THEN held \ {"gc"} ELSE held
        no_window == IF "window" \in no_gc THEN no_gc \ {"window"} ELSE no_gc
    IN  IF "display" \in no_window THEN no_window \ {"display"} ELSE no_window

\* main() from its first line to the first XNextEvent call, or to its
\* return when the startup fails.
Startup(w, h, outcome) ==
    /\ pc = "start"
    /\ IF outcome = "no_display"
       THEN /\ out' = [NoOut EXCEPT !.errs = <<"Unable to open display.">>]
            /\ resources' = {}
            /\ exit_code' = EXIT_FAILURE
            /\ pc' = "exited"
            /\ UNCHANGED <<layout, color_boxes>>
       ELSE LET init == initialize_dock(outcome)
            IN  /\ display_height' = h
                /\ display_width' = w
                /\ app' = Layout(h)
                /\ out' = [NoOut EXCEPT !.errs = init.errs]
                /\ IF init.ret # 0
                   THEN /\ resources' = init.resources \ {"display"}
                        /\ exit_code' = EXIT_FAILURE
                        /\ pc' = "exited"
                        /\ UNCHANGED color_boxes
                   ELSE /\ resources' = init.resources
                        /\ color_boxes' = initialize_color_boxes(Layout(h).rect_size)
                        /\ pc' = "loop"
                        /\ UNCHANGED exit_code
    /\ UNCHANGED <<last_clicked_box, clipboard, format, menu_box, hover_item,
                   lastEv, handler>>

\* The step takes ev from the XNextEvent call of main's loop and passes it
\* to handle_event.
Dispatch(ev) ==
    /\ pc = "loop"
    /\ lastEv' = ev
    /\ handler' = "handle_event"

\* The step takes ev from the XNextEvent call of context_menu_show's loop.
MenuDispatch(ev) ==
    /\ pc = "menu"
    /\ lastEv' = ev
    /\ handler' = "context_menu_show"

(***************************************************************************)
(* dock.c: handle_event, one action per case of its switch                 *)
(***************************************************************************)
\* case Expose: draw_all_boxes() when no further Expose follows.
Expose(ev) ==
    /\ Dispatch(ev)
    /\ ev.type = "Expose"
    /\ out' = [NoOut EXCEPT
                 !.draws = IF ev.count = 0
                           THEN [i \in 1 .. PALETTE_LENGTH |-> i - 1] ELSE <<>>]
    /\ UNCHANGED <<process, layout, swatches, clipboard, format, session>>

\* case ButtonPress, button == Button1.  Whether the dock window is read
\* back as the selection's owner is the server's answer.
PressButton1(ev) ==
    LET box == find_box(ev.x, ev.y)
    IN  IF box # nullptr
        THEN \E owns \in BOOLEAN :
               \E copy \in {copy_color_from_box(box, current_format, owns)} :
                   /\ clipboard_text' = copy.clipboard_text
                   /\ owner' = copy.owner
                   /\ last_commit' = copy.last_commit
                   /\ color_boxes' = [color_boxes EXCEPT ![box].is_clicked = TRUE]
                   /\ out' = [copy.out EXCEPT !.draws = <<box>>]
                   /\ last_clicked_box' = box
                   /\ UNCHANGED <<process, layout, format, session>>
        ELSE /\ out' = NoOut
             /\ UNCHANGED <<process, layout, swatches, clipboard, format, session>>

\* context_menu_show(x, y) up to XCreateWindow: the rectangle of the menu
\* window.  x and y are the root coordinates XTranslateCoordinates gave for
\* the click.  The limit of y is computed in uint32_t, app.dock_height being
\* one, and converted to int.
MenuRectangle(x, y) ==
    LET screen_width == display_width
        screen_height == display_height
        menu_x == IF x + MENU_WIDTH > screen_width
                  THEN screen_width - MENU_WIDTH - app.dock_width
                  ELSE x
        limit == U32Add(ToU32(app.dock_height),
                        U32Half(U32Sub(ToU32(screen_height),
                                       ToU32(app.dock_height))))
        menu_y == IF y + MENU_ITEM_HEIGHT * FORMAT_COUNT > U32ToInt(limit)
                  THEN U32ToInt(U32Sub(limit, ToU32(MENU_ITEM_HEIGHT * FORMAT_COUNT)))
                  ELSE y
    IN  [x |-> menu_x, y |-> menu_y, width |-> MENU_WIDTH,
         height |-> MENU_ITEM_HEIGHT * FORMAT_COUNT]

\* Mutant of PressButton3: the swatch is marked pressed as by Button1.
PressButton3Marks(ev) ==
    LET box == find_box(ev.x, ev.y)
    IN  /\ IF box # nullptr
           THEN /\ pc' = "menu"
                /\ menu_box' = box
                /\ hover_item' = -1
                /\ resources' = resources \cup {"menu_win"}
                /\ out' = [NoOut EXCEPT
                             !.menus = <<MenuRectangle(WindowOrigin[1] + ev.x,
                                                       WindowOrigin[2] + ev.y)>>,
                             !.menu_draws = <<-1>>]
                /\ color_boxes' = [color_boxes EXCEPT ![box].is_clicked = TRUE]
                /\ last_clicked_box' = box
           ELSE /\ out' = NoOut
                /\ UNCHANGED <<session, resources, swatches>>
        /\ UNCHANGED <<exit_code, layout, clipboard, format>>

\* case ButtonPress, button == Button3, up to the first XNextEvent of
\* context_menu_show: the menu window is mapped and the session starts.
PressButton3(ev) ==
    LET box == find_box(ev.x, ev.y)
    IN  /\ IF box # nullptr
           THEN /\ pc' = "menu"
                /\ menu_box' = box
                /\ hover_item' = -1
                /\ resources' = resources \cup {"menu_win"}
                /\ out' = [NoOut EXCEPT
                             !.menus = <<MenuRectangle(WindowOrigin[1] + ev.x,
                                                       WindowOrigin[2] + ev.y)>>,
                             !.menu_draws = <<-1>>]
           ELSE /\ out' = NoOut
                /\ UNCHANGED <<session, resources>>
        /\ UNCHANGED <<exit_code, layout, swatches, clipboard, format>>

ButtonPress(ev) ==
    /\ Dispatch(ev)
    /\ ev.type = "ButtonPress"
    /\ IF ev.button = Button1 THEN PressButton1(ev)
       ELSE IF ev.button = Button3 THEN PressButton3(ev)
       ELSE /\ out' = NoOut
            /\ UNCHANGED <<process, layout, swatches, clipboard, format, session>>

\* Mutant of ButtonRelease: the release of a pressed swatch copies its color
\* (copy on release).
ButtonReleaseCopies(ev) ==
    /\ Dispatch(ev)
    /\ ev.type = "ButtonRelease"
    /\ LET box == find_box(ev.x, ev.y)
       IN  IF box # nullptr /\ get_last_clicked_box = box
           THEN \E owns \in BOOLEAN :
                  \E copy \in {copy_color_from_box(box, current_format, owns)} :
                      /\ clipboard_text' = copy.clipboard_text
                      /\ owner' = copy.owner
                      /\ last_commit' = copy.last_commit
                      /\ color_boxes' = colorbox_on_release(box)
                      /\ out' = [copy.out EXCEPT !.draws = <<box>>]
                      /\ last_clicked_box' = nullptr
           ELSE /\ out' = NoOut
                /\ UNCHANGED <<swatches, clipboard>>
    /\ UNCHANGED <<process, layout, format, session>>

\* case ButtonRelease.
ButtonRelease(ev) ==
    /\ Dispatch(ev)
    /\ ev.type = "ButtonRelease"
    /\ LET box == find_box(ev.x, ev.y)
       IN  IF box # nullptr /\ get_last_clicked_box = box
           THEN /\ color_boxes' = colorbox_on_release(box)
                /\ out' = [NoOut EXCEPT !.draws = <<box>>]
                /\ last_clicked_box' = nullptr
           ELSE /\ out' = NoOut
                /\ UNCHANGED swatches
    /\ UNCHANGED <<process, layout, clipboard, format, session>>

\* Mutant of MotionNotify: the pressed swatch is released only when the
\* pointer is on no swatch.
MotionNotifyOffSwatches(ev) ==
    /\ Dispatch(ev)
    /\ ev.type = "MotionNotify"
    /\ LET box == find_box(ev.x, ev.y)
       IN  IF get_last_clicked_box # nullptr /\ box = nullptr
           THEN /\ color_boxes' = colorbox_on_release(get_last_clicked_box)
                /\ out' = [NoOut EXCEPT !.draws = <<get_last_clicked_box>>]
                /\ last_clicked_box' = nullptr
           ELSE /\ out' = NoOut
                /\ UNCHANGED swatches
    /\ UNCHANGED <<process, layout, clipboard, format, session>>

\* case MotionNotify.
MotionNotify(ev) ==
    /\ Dispatch(ev)
    /\ ev.type = "MotionNotify"
    /\ LET box == find_box(ev.x, ev.y)
       IN  IF get_last_clicked_box # nullptr /\ get_last_clicked_box # box
           THEN /\ color_boxes' = colorbox_on_release(get_last_clicked_box)
                /\ out' = [NoOut EXCEPT !.draws = <<get_last_clicked_box>>]
                /\ last_clicked_box' = nullptr
           ELSE /\ out' = NoOut
                /\ UNCHANGED swatches
    /\ UNCHANGED <<process, layout, clipboard, format, session>>

\* case SelectionRequest.  handle_event does not test the ownership: a
\* request queued before the selection was lost or refused is answered too.
SelectionRequest(ev) ==
    /\ Dispatch(ev)
    /\ ev.type = "SelectionRequest"
    /\ out' = handle_selection_request(ev)
    /\ UNCHANGED <<process, layout, swatches, clipboard, format, session>>

\* case ClientMessage: cleanup_dock() and exit(EXIT_SUCCESS) on WM_DELETE_WINDOW.
ClientMessage(ev) ==
    /\ Dispatch(ev)
    /\ ev.type = "ClientMessage"
    /\ out' = NoOut
    /\ IF ev.data0 = "WM_DELETE_WINDOW"
       THEN /\ resources' = cleanup_dock(resources)
            /\ exit_code' = EXIT_SUCCESS
            /\ pc' = "exited"
       ELSE UNCHANGED <<process, pc>>
    /\ UNCHANGED <<layout, swatches, clipboard, format, menu_box, hover_item>>

\* default: the event is ignored.  A SelectionClear tells that another
\* client has taken the selection.
OtherEvent(ev) ==
    /\ Dispatch(ev)
    /\ out' = NoOut
    /\ owner' = IF ev.type = "SelectionClear" THEN FALSE ELSE owner
    /\ UNCHANGED <<process, layout, swatches, clipboard_text, last_commit, format, session>>

(***************************************************************************)
(* context_menu.c: the event loop of context_menu_show                     *)
(***************************************************************************)
menu_height == MENU_ITEM_HEIGHT * FORMAT_COUNT

\* Vertical offsets of button presses on the menu window: the top of the
\* first row and of the HSL row, the last pixel of the last row, and the
\* offsets around both ends of the window.
MenuClickYs ==
    {-1, 0, FORMAT_HSL * MENU_ITEM_HEIGHT, menu_height - 1, menu_height,
     menu_height + 1}

\* Vertical offsets of pointer motion on the menu window.
MenuMotionYs == {-1, menu_height - 1, menu_height}

MenuPointerEvents(type, ys) ==
    {[type |-> type, window |-> MenuWin, button |-> Button1, x |-> 1, y |-> y] :
        y \in ys}

MenuLeaveEvents == {[type |-> "LeaveNotify", window |-> MenuWin]}

\* Events that reach the loop for a window other than the menu's: pointer
\* events on the first swatch of the dock, and the events of the dock that
\* carry no position.
ForeignEvents ==
    ButtonEvents("ButtonPress", {Button1, Button3}, {SwatchOrigin(0)})
        \cup ButtonEvents("ButtonRelease", {Button1}, {SwatchOrigin(0)})
        \cup MotionEvents({SwatchOrigin(0)})
        \cup {e \in ExposeEvents(DockWin) : e.count = 0}
        \cup {e \in ClientMessages : e.data0 = "WM_DELETE_WINDOW"}
        \cup {e \in OtherEvents : e.type = "SelectionClear"}
        \cup {r \in SelectionRequests :
                r.property = "PROP_A" /\ r.target \in {"TARGETS", "UTF8_STRING"}}

\* Mutant of MenuReturn: the returned value is stored without the test for
\* a selection.
MenuReturnUnchecked(selected_item) ==
    /\ pc' = "loop"
    /\ menu_box' = nullptr
    /\ hover_item' = -1
    /\ current_format' = selected_item
    /\ IF selected_item >= 0
       THEN \E owns \in BOOLEAN :
              \E copy \in {copy_color_from_box(menu_box, selected_item, owns)} :
                  /\ menu_format' = selected_item
                  /\ clipboard_text' = copy.clipboard_text
                  /\ owner' = copy.owner
                  /\ last_commit' = copy.last_commit
                  /\ out' = [copy.out EXCEPT !.returns = <<selected_item>>]
       ELSE /\ out' = [NoOut EXCEPT !.returns = <<selected_item>>]
            /\ UNCHANGED <<clipboard, menu_format>>
    /\ resources' = resources \ {"menu_win"}
    /\ UNCHANGED <<exit_code, layout, swatches>>

\* Mutant of MenuReturn: the selection is stored and the color is not copied.
MenuReturnNoCopy(selected_item) ==
    /\ pc' = "loop"
    /\ menu_box' = nullptr
    /\ hover_item' = -1
    /\ out' = [NoOut EXCEPT !.returns = <<selected_item>>]
    /\ IF selected_item >= 0
       THEN /\ current_format' = selected_item
            /\ menu_format' = selected_item
       ELSE UNCHANGED format
    /\ resources' = resources \ {"menu_win"}
    /\ UNCHANGED <<exit_code, layout, swatches, clipboard>>

\* Mutant of MenuReturn: the color is copied only when the selection changes
\* the format.
MenuReturnIfChanged(selected_item) ==
    /\ pc' = "loop"
    /\ menu_box' = nullptr
    /\ hover_item' = -1
    /\ IF selected_item >= 0 /\ selected_item # current_format
       THEN \E owns \in BOOLEAN :
              \E copy \in {copy_color_from_box(menu_box, selected_item, owns)} :
                  /\ current_format' = selected_item
                  /\ menu_format' = selected_item
                  /\ clipboard_text' = copy.clipboard_text
                  /\ owner' = copy.owner
                  /\ last_commit' = copy.last_commit
                  /\ out' = [copy.out EXCEPT !.returns = <<selected_item>>]
       ELSE /\ out' = [NoOut EXCEPT !.returns = <<selected_item>>]
            /\ menu_format' = IF selected_item >= 0 THEN selected_item
                              ELSE menu_format
            /\ UNCHANGED <<clipboard, current_format>>
    /\ resources' = resources \ {"menu_win"}
    /\ UNCHANGED <<exit_code, layout, swatches>>

\* The end of context_menu_show (the window is destroyed, selected_item is
\* returned) and the rest of handle_event's Button3 branch.
MenuReturn(selected_item) ==
    /\ pc' = "loop"
    /\ menu_box' = nullptr
    /\ hover_item' = -1
    /\ IF selected_item >= 0
       THEN \E owns \in BOOLEAN :
              \E copy \in {copy_color_from_box(menu_box, selected_item, owns)} :
                  /\ current_format' = selected_item
                  /\ menu_format' = selected_item
                  /\ clipboard_text' = copy.clipboard_text
                  /\ owner' = copy.owner
                  /\ last_commit' = copy.last_commit
                  /\ out' = [copy.out EXCEPT !.returns = <<selected_item>>]
       ELSE /\ out' = [NoOut EXCEPT !.returns = <<selected_item>>]
            /\ UNCHANGED <<clipboard, format>>
    /\ resources' = resources \ {"menu_win"}
    /\ UNCHANGED <<exit_code, layout, swatches>>

\* Mutant of MenuForeignEvent: a release on the dock window is handled as
\* handle_event handles it.
MenuForeignEventForwarded(ev) ==
    /\ MenuDispatch(ev)
    /\ ev.window # MenuWin
    /\ IF ev.type = "ButtonPress"
       THEN MenuReturn(-1)
       ELSE IF ev.type = "ButtonRelease"
                 /\ get_last_clicked_box # nullptr
                 /\ find_box(ev.x, ev.y) = get_last_clicked_box
       THEN /\ color_boxes' = colorbox_on_release(get_last_clicked_box)
            /\ out' = [NoOut EXCEPT !.draws = <<get_last_clicked_box>>]
            /\ last_clicked_box' = nullptr
            /\ UNCHANGED <<process, layout, clipboard, format, session>>
       ELSE /\ out' = NoOut
            /\ owner' = IF ev.type = "SelectionClear" THEN FALSE ELSE owner
            /\ UNCHANGED <<process, layout, swatches, clipboard_text, last_commit,
                           format, session>>

\* ev.xany.window != menu_win: a ButtonPress ends the loop, anything else is
\* dropped.
MenuForeignEvent(ev) ==
    /\ MenuDispatch(ev)
    /\ ev.window # MenuWin
    /\ IF ev.type = "ButtonPress"
       THEN MenuReturn(-1)
       ELSE /\ out' = NoOut
            /\ owner' = IF ev.type = "SelectionClear" THEN FALSE ELSE owner
            /\ UNCHANGED <<process, layout, swatches, clipboard_text, last_commit, format,
                           session>>

\* case Expose: the menu is painted again.
MenuExpose(ev) ==
    /\ MenuDispatch(ev)
    /\ ev.window = MenuWin
    /\ ev.type = "Expose"
    /\ out' = [NoOut EXCEPT !.menu_draws = <<hover_item>>]
    /\ UNCHANGED <<process, layout, swatches, clipboard, format, session>>

\* case MotionNotify.
MenuMotion(ev) ==
    /\ MenuDispatch(ev)
    /\ ev.window = MenuWin
    /\ ev.type = "MotionNotify"
    /\ LET h == CDiv(ev.y, MENU_ITEM_HEIGHT)
           new_hover == IF h < 0 \/ h >= FORMAT_COUNT THEN -1 ELSE h
       IN  /\ hover_item' = new_hover
           /\ out' = [NoOut EXCEPT
                        !.menu_draws = IF new_hover # hover_item
                                       THEN <<new_hover>> ELSE <<>>]
    /\ UNCHANGED <<process, layout, swatches, clipboard, format, pc, menu_box>>

\* Mutant of MenuLeave: the pointer leaving the menu closes it.
MenuLeaveCloses(ev) ==
    /\ MenuDispatch(ev)
    /\ ev.window = MenuWin
    /\ ev.type = "LeaveNotify"
    /\ MenuReturn(-1)

\* case LeaveNotify.
MenuLeave(ev) ==
    /\ MenuDispatch(ev)
    /\ ev.window = MenuWin
    /\ ev.type = "LeaveNotify"
    /\ out' = [NoOut EXCEPT
                 !.menu_draws = IF hover_item # -1 THEN <<-1>> ELSE <<>>]
    /\ hover_item' = -1
    /\ UNCHANGED <<process, layout, swatches, clipboard, format, pc, menu_box>>

\* case ButtonPress.
MenuButtonPress(ev) ==
    /\ MenuDispatch(ev)
    /\ ev.window = MenuWin
    /\ ev.type = "ButtonPress"
    /\ LET click_y == ev.y
       IN  IF click_y < 0 \/ click_y > menu_height
           THEN MenuReturn(-1)
           ELSE MenuReturn(CDiv(click_y, MENU_ITEM_HEIGHT))

(***************************************************************************)
(* The program                                                             *)
(***************************************************************************)
Next ==
    \/ \E w \in DisplayWidths, h \in DisplayHeights, outcome \in StartupOutcomes :
            Startup(w, h, outcome)
    \/ \E ev \in ExposeEvents(DockWin) : Expose(ev)
    \/ \E ev \in ButtonEvents("ButtonPress", {Button1, Button3}, Points)
                 \cup ButtonEvents("ButtonPress", OtherButtons, {SwatchOrigin(0)}) :
            ButtonPress(ev)
    \/ \E ev \in ButtonEvents("ButtonRelease", {Button1}, Points) : ButtonRelease(ev)
    \/ \E ev \in MotionEvents(Points) : MotionNotify(ev)
    \/ \E ev \in SelectionRequests : SelectionRequest(ev)
    \/ \E ev \in ClientMessages : ClientMessage(ev)
    \/ \E ev \in OtherEvents : OtherEvent(ev)
    \/ \E ev \in ForeignEvents : MenuForeignEvent(ev)
    \/ \E ev \in {e \in ExposeEvents(MenuWin) : e.count = 0} : MenuExpose(ev)
    \/ \E ev \in MenuPointerEvents("MotionNotify", MenuMotionYs) : MenuMotion(ev)
    \/ \E ev \in MenuLeaveEvents : MenuLeave(ev)
    \/ \E ev \in MenuPointerEvents("ButtonPress", MenuClickYs) : MenuButtonPress(ev)

Spec == Init /\ [][Next]_vars

(***************************************************************************)
(* set_clipboard called directly, as dock.h offers it, with texts around   *)
(* and beyond the capacity of the buffer                                   *)
(***************************************************************************)
RECURSIVE Text(_)
Text(n) == IF n = 0 THEN "" ELSE Text(n - 1) \o DecDigits[(n % 10) + 1]

LongTexts == {Text(n) : n \in (CLIPBOARD_BUFFER_SIZE - 1) .. MaxTextLen}

SetClipboardCall(text) ==
    /\ pc = "loop"
    /\ lastEv' = [type |-> "set_clipboard", window |-> DockWin, text |-> text]
    /\ handler' = "set_clipboard"
    /\ \E owns \in BOOLEAN :
          \E call \in {set_clipboard(text, owns)} :
              /\ clipboard_text' = call.clipboard_text
              /\ owner' = call.owner
              /\ last_commit' = call.last_commit
              /\ out' = call.out
    /\ UNCHANGED <<process, layout, swatches, format, session>>

NextClip ==
    \/ Next
    \/ \E text \in LongTexts : SetClipboardCall(text)

SpecClip == Init /\ [][NextClip]_vars

(***************************************************************************)
(* format_color called directly, as context_menu.h offers it               *)
(***************************************************************************)
\* Channel values: both ends, the digit boundaries of the decimal and the
\* hexadecimal notation, and the middle.
Channels == {0, 1, 9, 10, 15, 16, 127, 128, 160, 254, 255}

Grays == {65536 * c + 256 * c + c : c \in 0 .. 255}

\* Colors whose exact hue or saturation is halfway between two integers:
\* 0x001801, 0x070769, 0x002748 (the doubles fall below the half) and
\* 0x000178 (the double is the half: 239.5).
TieColors == {6145, 460649, 10056, 376}

FormatColors ==
    {65536 * r + 256 * g + b : r \in Channels, g \in Channels, b \in Channels}
        \cup Grays \cup {colors[i] : i \in 1 .. PALETTE_LENGTH} \cup TieColors

\* format_color reads no state of the program: one call from the initial
\* state stands for a call from any state.
FormatColorCall(color, fmt) ==
    /\ pc = "start"
    /\ handler = "main"
    /\ lastEv' = [type |-> "format_color", window |-> DockWin, color |-> color,
                  format |-> fmt]
    /\ handler' = "format_color"
    /\ out' = [NoOut EXCEPT
                 !.texts = <<format_color(color, fmt, CLIPBOARD_BUFFER_SIZE)>>]
    /\ UNCHANGED <<pc, process, layout, swatches, clipboard, format, menu_box,
                   hover_item>>

NextFormat ==
    \E color \in FormatColors, fmt \in 0 .. FORMAT_COUNT :
        FormatColorCall(color, fmt)

SpecFormat == Init /\ [][NextFormat]_vars

(***************************************************************************)
(* find_box called directly on the points of the panel and around it       *)
(***************************************************************************)
HitHeights == DisplayHeights \cup {20 * edge : edge \in 0 .. MaxHitEdge}

\* Horizontal positions: around both edges of the panel and of the swatches.
ProbeXs ==
    {-1, 0, PADDING - 1, PADDING, PADDING + app.rect_size,
     PADDING + app.rect_size + 1, app.dock_width - 1, app.dock_width}

ProbeYs == -1 .. app.dock_height

\* find_box reads the layout only: the calls right after the startup stand
\* for the calls from any state.
FindBoxCall(x, y) ==
    /\ pc = "loop"
    /\ handler = "main"
    /\ lastEv' = [type |-> "find_box", window |-> DockWin, x |-> x, y |-> y]
    /\ handler' = "find_box"
    /\ out' = [NoOut EXCEPT !.returns = <<find_box(x, y)>>]
    /\ UNCHANGED <<pc, process, layout, swatches, clipboard, format, menu_box,
                   hover_item>>

NextHit ==
    \/ \E w \in DisplayWidths, h \in HitHeights : Startup(w, h, "ok")
    \/ \E x \in ProbeXs, y \in ProbeYs : FindBoxCall(x, y)

SpecHit == Init /\ [][NextHit]_vars

(***************************************************************************)
(* The menu opened on displays of several sizes                            *)
(***************************************************************************)
MenuWidths == {100, 320, 1920}
MenuHeights == {240, 400, 1000, 1080}

\* Both ends of the diagonal of every swatch.
SwatchCorners ==
    {SwatchOrigin(i) : i \in Boxes}
        \cup {<<SwatchOrigin(i)[1] + app.rect_size,
                SwatchOrigin(i)[2] + app.rect_size>> : i \in Boxes}

NextMenu ==
    \/ \E w \in MenuWidths, h \in MenuHeights : Startup(w, h, "ok")
    \/ \E ev \in ButtonEvents("ButtonPress", {Button3}, SwatchCorners) :
            ButtonPress(ev)

SpecMenu == Init /\ [][NextMenu]_vars

(***************************************************************************)
(* main's layout computation over a range of screen heights               *)
(***************************************************************************)
NextLayout ==
    \E w \in DisplayWidths, h \in 0 .. MaxDisplayHeight, outcome \in StartupOutcomes :
        Startup(w, h, outcome)

SpecLayout == Init /\ [][NextLayout]_vars

(***************************************************************************)
(* Properties                                                              *)
(***************************************************************************)
Pressed == {i \in Boxes : color_boxes[i].is_clicked}

\* The last step was handle_event on a ButtonPress of the given button.
HandledPress(button) ==
    /\ handler = "handle_event"
    /\ lastEv.type = "ButtonPress"
    /\ lastEv.button = button

\* The swatch under the pointer of the last pointer event (the layout never
\* changes).
EventBox == find_box(lastEv.x, lastEv.y)

\* The last step was handle_event on a SelectionRequest.
HandledRequest == handler = "handle_event" /\ lastEv.type = "SelectionRequest"

\* C1: after any sequence of press, release and motion events, at most one
\* swatch has is_clicked = true.  The code breaks it: a Button1 press on a
\* second swatch sets its flag and leaves the first swatch's flag set.
C1_AtMostOnePressed == Cardinality(Pressed) <= 1

\* C2: a Button1 press on a swatch makes exactly one set_clipboard call, and
\* a release makes none: press then release at the same point commits once,
\* on the press.
C2_CommitOnPressOnly ==
    /\ (HandledPress(Button1) /\ EventBox # nullptr) => Len(out.commits) = 1
    /\ (handler = "handle_event" /\ lastEv.type = "ButtonRelease")
            => out.commits = <<>>

\* A release on the pressed swatch was handled (the swatch was repainted
\* unpressed) after a press had committed its color.
C2_Witness ==
    /\ handler = "handle_event"
    /\ lastEv.type = "ButtonRelease"
    /\ EventBox # nullptr
    /\ out.draws = <<EventBox>>
    /\ out.commits = <<>>
    /\ last_commit = format_color(color_boxes[EventBox].color, current_format,
                                  CLIPBOARD_BUFFER_SIZE)

\* C3: when the menu session opened on swatch s returns a selection, the
\* current format becomes the selected format and exactly one commit is
\* made, of format_color(s.color, selected format).
C3_SelectionCommits ==
    [][(pc = "menu" /\ pc' = "loop" /\ out'.returns # <<>> /\ out'.returns[1] >= 0)
          => /\ current_format' = out'.returns[1]
             /\ out'.commits =
                  <<format_color(color_boxes[menu_box].color, out'.returns[1],
                                 CLIPBOARD_BUFFER_SIZE)>>]_vars

\* A session returned the HSL row and the swatch's HSL text was committed.
C3_Witness ==
    /\ handler = "context_menu_show"
    /\ out.returns = <<FORMAT_HSL>>
    /\ current_format = FORMAT_HSL
    /\ out.commits \in {<<"hsl(220, 16%, 22%);">>, <<"hsl(222, 16%, 28%);">>}

\* C4: once a format F has been selected through the menu, the current
\* format stays F in every state until the next selection, and every
\* Button1 press on a swatch b commits format_color(b.color, F) and leaves
\* it in the clipboard buffer.
C4_FormatSticks ==
    menu_format # -1 =>
        /\ current_format = menu_format
        /\ (HandledPress(Button1) /\ EventBox # nullptr) =>
              /\ out.commits =
                   <<format_color(color_boxes[EventBox].color, menu_format,
                                  CLIPBOARD_BUFFER_SIZE)>>
              /\ clipboard_text = out.commits[1]

\* After HSL was selected, a Button1 press on the second swatch (nord1) left
\* its HSL text in the buffer.
C4_Witness ==
    /\ HandledPress(Button1)
    /\ EventBox = 1
    /\ menu_format = FORMAT_HSL
    /\ clipboard_text = "hsl(222, 16%, 28%);"

\* C5: every selection request taken from the event queue is answered with
\* exactly one SelectionNotify sent to its requestor.  The code breaks it:
\* the loop of context_menu_show drops the request.
C5_EveryRequestAnswered ==
    lastEv.type = "SelectionRequest" =>
        /\ Len(out.notifies) = 1
        /\ out.notifies[1].to = lastEv.requestor

\* C6: handle_selection_request answers a TARGETS request by writing the list
\* TARGETS, STRING, UTF8_STRING, COMPOUND_TEXT to the requested property of
\* the requestor, whatever the state is.
C6_TargetsList ==
    (HandledRequest /\ lastEv.target = "TARGETS") =>
        /\ out.props =
             <<[window |-> lastEv.requestor, property |-> lastEv.property,
                type |-> "ATOM", format |-> 32,
                data |-> <<"TARGETS", "STRING", "UTF8_STRING", "COMPOUND_TEXT">>]>>
        /\ Len(out.notifies) = 1
        /\ out.notifies[1].to = lastEv.requestor
        /\ out.notifies[1].event.property = lastEv.property

\* A TARGETS request was answered while a swatch is pressed, the format is
\* not the default and the buffer is not empty.
C6_Witness ==
    /\ HandledRequest
    /\ lastEv.target = "TARGETS"
    /\ out.props # <<>>
    /\ Pressed # {}
    /\ current_format = FORMAT_HSL
    /\ clipboard_text # ""

\* C7: a request for a target outside TARGETS, STRING, UTF8_STRING and
\* COMPOUND_TEXT is answered with one SelectionNotify whose property is
\* None, and no property is written on the requestor.
C7_UnsupportedRefused ==
    (HandledRequest
        /\ lastEv.target \notin {"TARGETS", "STRING", "UTF8_STRING", "COMPOUND_TEXT"})
    => /\ Len(out.notifies) = 1
       /\ out.notifies[1].to = lastEv.requestor
       /\ out.notifies[1].event.type = "SelectionNotify"
       /\ out.notifies[1].event.property = "None"
       /\ out.props = <<>>

\* A TIMESTAMP request was refused.
C7_Witness ==
    /\ HandledRequest
    /\ lastEv.target = "TIMESTAMP"
    /\ Len(out.notifies) = 1
    /\ clipboard_text # ""

\* C8: a request for STRING, UTF8_STRING or COMPOUND_TEXT is answered with
\* the buffer as it is, which is the text of the most recent commit, written
\* to the requested property with the requested target as its type; the
\* notify names the requested property.
C8_DataIsLastCommit ==
    (HandledRequest /\ lastEv.target \in {"STRING", "UTF8_STRING", "COMPOUND_TEXT"})
    => /\ Len(out.props) = 1
       /\ out.props[1].window = lastEv.requestor
       /\ out.props[1].property = lastEv.property
       /\ out.props[1].type = lastEv.target
       /\ out.props[1].data = clipboard_text
       /\ clipboard_text = last_commit
       /\ Len(out.notifies) = 1
       /\ out.notifies[1].to = lastEv.requestor
       /\ out.notifies[1].event.property = lastEv.property

\* A UTF8_STRING request was answered with an HSL text: the default format's
\* text of an earlier press has been replaced.
C8_Witness ==
    /\ HandledRequest
    /\ lastEv.target = "UTF8_STRING"
    /\ Pressed # {}
    /\ out.props # <<>>
    /\ out.props[1].data = "hsl(220, 16%, 22%);"

\* C9: the buffer never holds more than CLIPBOARD_BUFFER_SIZE - 1
\* characters; a commit stores the first CLIPBOARD_BUFFER_SIZE - 1
\* characters of its text (all of it when it is shorter) and goes on to
\* assert the ownership.
C9_BufferBounded ==
    /\ Len(clipboard_text) <= CLIPBOARD_BUFFER_SIZE - 1
    /\ out.commits # <<>> =>
          /\ clipboard_text =
               IF Len(out.commits[1]) <= CLIPBOARD_BUFFER_SIZE - 1
               THEN out.commits[1]
               ELSE SubSeq(out.commits[1], 1, CLIPBOARD_BUFFER_SIZE - 1)
          /\ out.asserts = <<DockWin>>

\* A text longer than the buffer was committed and cut.
C9_Witness ==
    /\ out.commits # <<>>
    /\ Len(out.commits[1]) > CLIPBOARD_BUFFER_SIZE - 1
    /\ Len(clipboard_text) = CLIPBOARD_BUFFER_SIZE - 1
    /\ out.asserts = <<DockWin>>

\* The last step asserted the ownership and the owner read back was not the
\* dock window.
OwnershipFailed == out.asserts # <<>> /\ ~owner

\* C10: when the ownership assertion of a commit fails, the buffer holds
\* the new text, the failure is written to stderr, the process is still in
\* its event loop, and a press that caused the commit has marked its swatch
\* pressed.
C10_FailedOwnershipNonFatal ==
    OwnershipFailed =>
        /\ Len(out.commits) = 1
        /\ clipboard_text = out.commits[1]
        /\ out.errs = <<"Failed to set clipboard owner">>
        /\ pc = "loop"
        /\ (HandledPress(Button1) =>
              /\ EventBox # nullptr
              /\ color_boxes[EventBox].is_clicked
              /\ last_clicked_box = EventBox)

\* A press whose commit failed to take the ownership replaced the buffer's
\* earlier text.
C10_Witness ==
    /\ OwnershipFailed
    /\ HandledPress(Button1)
    /\ EventBox = 1
    /\ clipboard_text = "#3B4252"
    /\ color_boxes[0].is_clicked

\* The last step was context_menu_show taking a ButtonPress on its window.
MenuPressed ==
    /\ handler = "context_menu_show"
    /\ lastEv.type = "ButtonPress"
    /\ lastEv.window = MenuWin

\* C11: a button press on the menu window at vertical offset y ends the
\* session and returns y / MENU_ITEM_HEIGHT when y is in the rows
\* (0 <= y < FORMAT_COUNT * MENU_ITEM_HEIGHT) and -1 otherwise, so the value
\* returned is -1 or one of 0..7.  The code breaks it at y = menu_height,
\* where it returns FORMAT_COUNT.
C11_ReturnsRowOrCancel ==
    MenuPressed =>
        /\ pc = "loop"
        /\ out.returns =
             <<IF 0 <= lastEv.y /\ lastEv.y < FORMAT_COUNT * MENU_ITEM_HEIGHT
               THEN lastEv.y \div MENU_ITEM_HEIGHT ELSE -1>>
        /\ out.returns[1] \in {-1} \cup (0 .. (FORMAT_COUNT - 1))

\* C12: in every reachable state the current format is one of the 8
\* variants 0..7, and every commit stores a non-empty text.  The code breaks
\* it through the press of C11 at y = menu_height.
C12_FormatInEnum ==
    /\ current_format \in 0 .. (FORMAT_COUNT - 1)
    /\ out.commits # <<>> => out.commits[1] # ""

\* C13: the current format is FORMAT_HTML_HEX at startup, and a step changes
\* it only when it is a menu session returning a selection, which becomes
\* the format; every other step (presses, releases, motions, exposures,
\* selection requests, client messages, cancelled sessions) leaves it as it
\* is.
C13_FormatChangedByMenuOnly ==
    /\ current_format = FORMAT_HTML_HEX
    /\ [][current_format' # current_format
            => /\ pc = "menu"
               /\ pc' = "loop"
               /\ out'.returns # <<>>
               /\ out'.returns[1] >= 0
               /\ current_format' = out'.returns[1]]_vars

\* A session was cancelled after HSL had been selected and a swatch pressed:
\* the format is still HSL.
C13_Witness ==
    /\ handler = "context_menu_show"
    /\ out.returns = <<-1>>
    /\ current_format = FORMAT_HSL
    /\ Pressed # {}
    /\ clipboard_text # ""

\* C14: with swatch s pressed (the last-pressed reference is s), a release
\* at a point on s or on no swatch clears s.is_clicked and the reference and
\* commits nothing.  The code breaks it: a release on no swatch does
\* nothing.
C14_ReleaseAlwaysIdle ==
    [][(/\ pc = "loop"
        /\ handler' = "handle_event"
        /\ lastEv'.type = "ButtonRelease"
        /\ last_clicked_box # nullptr
        /\ find_box(lastEv'.x, lastEv'.y) \in {last_clicked_box, nullptr})
          => /\ ~color_boxes'[last_clicked_box].is_clicked
             /\ last_clicked_box' = nullptr
             /\ out'.commits = <<>>]_vars

\* C15: with swatch s pressed, a motion event at a point on another swatch
\* or on no swatch clears s.is_clicked and the last-pressed reference, a
\* motion event at a point on s changes neither, and no motion event
\* commits.
C15_MotionLeavesSwatch ==
    [][(/\ pc = "loop"
        /\ handler' = "handle_event"
        /\ lastEv'.type = "MotionNotify"
        /\ last_clicked_box # nullptr)
          => /\ IF find_box(lastEv'.x, lastEv'.y) = last_clicked_box
                THEN UNCHANGED <<color_boxes, last_clicked_box>>
                ELSE /\ ~color_boxes'[last_clicked_box].is_clicked
                     /\ last_clicked_box' = nullptr
             /\ out'.commits = <<>>
             /\ UNCHANGED clipboard_text]_vars

\* The pointer moved from the pressed first swatch onto the second one: the
\* first swatch was repainted unpressed.
C15_Witness ==
    /\ handler = "handle_event"
    /\ lastEv.type = "MotionNotify"
    /\ EventBox = 1
    /\ out.draws = <<0>>
    /\ ~color_boxes[0].is_clicked
    /\ last_clicked_box = nullptr
    /\ clipboard_text = "#2E3440"

\* C16: a Button3 press changes no swatch's pressed flag and not the
\* last-pressed reference, and on a swatch it opens a menu session; a
\* session that returns -1 leaves the current format and the buffer as they
\* are and commits nothing.
C16_SecondaryPressOpensMenu ==
    [][/\ (/\ pc = "loop"
           /\ handler' = "handle_event"
           /\ lastEv'.type = "ButtonPress"
           /\ lastEv'.button = Button3)
          => /\ UNCHANGED <<color_boxes, last_clicked_box>>
             /\ out'.commits = <<>>
             /\ find_box(lastEv'.x, lastEv'.y) # nullptr
                   => /\ pc' = "menu"
                      /\ menu_box' = find_box(lastEv'.x, lastEv'.y)
       /\ (pc = "menu" /\ pc' = "loop" /\ out'.returns = <<-1>>)
          => /\ UNCHANGED <<current_format, clipboard_text, color_boxes,
                            last_clicked_box>>
             /\ out'.commits = <<>>]_vars

\* A session opened on a swatch was cancelled by a press on the menu window
\* outside its rows, with no swatch ever pressed and nothing ever committed.
C16_Witness ==
    /\ MenuPressed
    /\ out.returns = <<-1>>
    /\ Pressed = {}
    /\ last_clicked_box = nullptr
    /\ last_commit = ""
    /\ current_format = FORMAT_HTML_HEX

\* C17: a step that starts and ends inside a menu session changes no
\* swatch's pressed flag, not the last-pressed reference, not the clipboard
\* buffer and not the current format, and commits nothing.
C17_SessionFreezesState ==
    [][(pc = "menu" /\ pc' = "menu")
          => /\ UNCHANGED <<color_boxes, last_clicked_box, clipboard_text,
                            current_format>>
             /\ out'.commits = <<>>]_vars

\* A release on the pressed swatch arrived while the menu was open and the
\* swatch is still pressed.
C17_Witness ==
    /\ pc = "menu"
    /\ handler = "context_menu_show"
    /\ lastEv.type = "ButtonRelease"
    /\ lastEv.window = DockWin
    /\ last_clicked_box # nullptr
    /\ EventBox = last_clicked_box
    /\ color_boxes[last_clicked_box].is_clicked

\* The last event taken from the queue was a close request of the window
\* manager.
CloseRequested ==
    lastEv.type = "ClientMessage" /\ lastEv.data0 = "WM_DELETE_WINDOW"

\* C18: when a WM_DELETE_WINDOW client message has been taken from the
\* queue, by main's loop or by the menu's, the process has released all its
\* resources and exited with EXIT_SUCCESS; and it exits with EXIT_SUCCESS on
\* no other event.  The code breaks it: the menu's loop drops the message.
C18_CloseRequestTerminates ==
    /\ CloseRequested
          => /\ pc = "exited"
             /\ exit_code = EXIT_SUCCESS
             /\ resources = {}
    /\ exit_code = EXIT_SUCCESS => CloseRequested

\* C19: when the startup fails (XOpenDisplay, XMatchVisualInfo,
\* XCreateSimpleWindow or XCreateGC), the process has exited with a non-zero
\* status, handled no event, and holds no resource; and a non-zero status
\* comes from the startup only.
C19_StartupFailureReleases ==
    /\ (pc = "exited" /\ lastEv = NoEvent)
          => /\ exit_code \notin {Running, EXIT_SUCCESS}
             /\ resources = {}
             /\ handler = "main"
             /\ Len(out.errs) = 1
    /\ exit_code \notin {Running, EXIT_SUCCESS}
          => pc = "exited" /\ lastEv = NoEvent

\* XCreateGC failed after the window had been created.
C19_Witness ==
    /\ pc = "exited"
    /\ exit_code = EXIT_FAILURE
    /\ out.errs = <<"Failed to create graphics context.">>
    /\ resources = {}
    /\ lastEv = NoEvent

\* C20: after startup the edge is floor((h - 0.20 h) / 16), the panel width
\* 2 * 5 + edge and the panel height 16 * (edge + 5) + 5, h being the screen
\* height; for h = 1000 they are 50, 60 and 885.
C20_Layout ==
    pc = "loop" =>
        LET h == display_height
            edge == app.rect_size
        IN  /\ 16 * 100 * edge <= (100 - 20) * h
            /\ (100 - 20) * h < 16 * 100 * (edge + 1)
            /\ app.dock_width = 2 * 5 + edge
            /\ app.dock_height = 16 * (edge + 5) + 5
            /\ h = 1000 => /\ edge = 50
                           /\ app.dock_width = 60
                           /\ app.dock_height = 885

\* The startup succeeded on a screen 1000 high.
C20_Witness ==
    /\ pc = "loop"
    /\ display_height = 1000
    /\ app = [rect_size |-> 50, dock_width |-> 60, dock_height |-> 885]
    /\ color_boxes[1].y = 60

\* The last step was a direct call of format_color with the given format.
Formatted(fmt) ==
    /\ lastEv.type = "format_color"
    /\ lastEv.format = fmt
    /\ Len(out.texts) = 1

\* C21: in the HSL format 0xFFFFFF gives saturation 0 and lightness 100,
\* 0x000000 saturation 0 and lightness 0, 0xFF0000 hue 0, saturation 100
\* and lightness 50, and every color with r = g = b gives hue 0 and
\* saturation 0.
C21_HslCorners ==
    Formatted(FORMAT_HSL) =>
        /\ lastEv.color = 16777215 => out.texts[1] = "hsl(0, 0%, 100%);"
        /\ lastEv.color = 0 => out.texts[1] = "hsl(0, 0%, 0%);"
        /\ lastEv.color = 16711680 => out.texts[1] = "hsl(0, 100%, 50%);"
        /\ lastEv.color \in Grays
              => /\ Len(out.texts[1]) >= 11
                 /\ SubSeq(out.texts[1], 1, 11) = "hsl(0, 0%, "

\* Pure red was formatted as HSL.
C21_Witness ==
    /\ Formatted(FORMAT_HSL)
    /\ lastEv.color = 16711680
    /\ out.texts[1] = "hsl(0, 100%, 50%);"

\* The value of one hexadecimal digit, in either case, and -1 for any other
\* character.
HexDigitValue(ch) ==
    IF \E d \in 1 .. 16 : ch \in {UpperHex[d], LowerHex[d]}
    THEN (CHOOSE d \in 1 .. 16 : ch \in {UpperHex[d], LowerHex[d]}) - 1
    ELSE -1

\* The characters of text from position from on are exactly six
\* hexadecimal digits.
SixHexDigits(text, from) ==
    /\ Len(text) = from + 5
    /\ \A i \in from .. (from + 5) : HexDigitValue(SubSeq(text, i, i)) >= 0

\* The number the six hexadecimal digits of text from position from on
\* denote.
ParseHex6(text, from) ==
    LET v(i) == HexDigitValue(SubSeq(text, from + i, from + i))
    IN  ((((v(0) * 16 + v(1)) * 16 + v(2)) * 16 + v(3)) * 16 + v(4)) * 16 + v(5)

\* C22: for a 24-bit color the HTML-hex text is '#' and exactly six hex
\* digits, the raw-hex text is '0x' and exactly six hex digits, and the
\* digits parse back to the color (R, G, B in this order).
C22_HexRoundTrip ==
    /\ Formatted(0)
          => /\ SubSeq(out.texts[1], 1, 1) = "#"
             /\ SixHexDigits(out.texts[1], 2)
             /\ ParseHex6(out.texts[1], 2) = lastEv.color
    /\ Formatted(1)
          => /\ SubSeq(out.texts[1], 1, 2) = "0x"
             /\ SixHexDigits(out.texts[1], 3)
             /\ ParseHex6(out.texts[1], 3) = lastEv.color

\* A color whose channels need the zero padding was formatted as raw hex.
C22_Witness ==
    /\ Formatted(1)
    /\ lastEv.color = 65536 * 1 + 256 * 10 + 255
    /\ out.texts[1] = "0x010aff"

\* C23: a step of a menu session ends the session exactly when its event
\* is a ButtonPress; a press for a window other than the menu's ends it with
\* -1, marks no swatch and commits nothing; motion, leave, exposure,
\* release, selection-request and client-message events keep the session
\* open.
C23_SessionEndsOnPress ==
    [][(pc = "menu" /\ handler' = "context_menu_show")
          => /\ (pc' = "loop") <=> (lastEv'.type = "ButtonPress")
             /\ pc' \in {"loop", "menu"}
             /\ (lastEv'.type = "ButtonPress" /\ lastEv'.window # MenuWin)
                   => /\ out'.returns = <<-1>>
                      /\ out'.commits = <<>>
                      /\ UNCHANGED <<color_boxes, last_clicked_box,
                                     clipboard_text>>]_vars

\* A Button1 press on the first swatch ended a session: the swatch is not
\* pressed and nothing was ever committed.
C23_Witness ==
    /\ handler = "context_menu_show"
    /\ lastEv.type = "ButtonPress"
    /\ lastEv.window = DockWin
    /\ lastEv.button = Button1
    /\ EventBox = 0
    /\ pc = "loop"
    /\ out.returns = <<-1>>
    /\ Pressed = {}
    /\ last_commit = ""

\* C24: the set of swatches with is_clicked = true is {last_clicked_box}
\* when the reference is set and empty when it is null.  The code breaks it
\* through the two presses of C1.
C24_PressedIsLastClicked ==
    Pressed = IF last_clicked_box = nullptr THEN {} ELSE {last_clicked_box}

\* The swatch a commit of the step from the unprimed to the primed state
\* copies from: the menu's swatch when a session returns, the swatch under
\* the press otherwise.
CommitBox == IF pc = "menu" THEN menu_box ELSE find_box(lastEv'.x, lastEv'.y)

\* C25: the buffer is empty at startup; a step that commits leaves in the
\* buffer format_color(c, current format) for the color c of the swatch it
\* copies from, and a step that does not commit changes neither the buffer
\* nor the current format: buffer and current format never disagree.
C25_BufferFollowsFormat ==
    /\ clipboard_text = ""
    /\ [][IF out'.commits # <<>>
          THEN clipboard_text' =
                 format_color(color_boxes[CommitBox].color, current_format',
                              CLIPBOARD_BUFFER_SIZE)
          ELSE UNCHANGED <<clipboard_text, current_format>>]_vars

\* The buffer holds the HSL text of the second swatch, pressed after HSL was
\* selected on the first one.
C25_Witness ==
    /\ HandledPress(Button1)
    /\ EventBox = 1
    /\ current_format = FORMAT_HSL
    /\ last_commit = "hsl(222, 16%, 28%);"
    /\ clipboard_text = last_commit

\* C26: inside a menu session the hovered index is in -1..7; a motion at
\* vertical offset y sets it to the row containing y, and to -1 for every y
\* outside 0 <= y < 8 * MENU_ITEM_HEIGHT, negative y included; a leave sets
\* it to -1; the menu is repainted by them only when the index changes.  The
\* code breaks it for y in -19..-1, where the truncating division gives
\* row 0.
C26_HoverInRange ==
    [][(/\ pc = "menu"
        /\ handler' = "context_menu_show"
        /\ lastEv'.window = MenuWin
        /\ lastEv'.type \in {"MotionNotify", "LeaveNotify"})
          => /\ hover_item' \in -1 .. (FORMAT_COUNT - 1)
             /\ lastEv'.type = "MotionNotify"
                   => hover_item' =
                        IF 0 <= lastEv'.y /\ lastEv'.y < 8 * MENU_ITEM_HEIGHT
                        THEN lastEv'.y \div MENU_ITEM_HEIGHT ELSE -1
             /\ lastEv'.type = "LeaveNotify" => hover_item' = -1
             /\ (out'.menu_draws # <<>>) <=> (hover_item' # hover_item)]_vars

\* The swatches whose hit region contains the point of the last find_box
\* call.
Hits ==
    {i \in Boxes : is_point_inside_box(ToU32(lastEv.x), ToU32(lastEv.y), i)}

\* C27: swatch i is at x = padding, y = padding + i * (edge + padding);
\* every point is inside the hit region of at most one swatch, a point that
\* hits a swatch is inside the panel rectangle, and find_box returns the
\* swatch hit, or null when there is none.
C27_HitRegionsDisjoint ==
    lastEv.type = "find_box" =>
        /\ \A i \in Boxes :
              /\ color_boxes[i].x = 5
              /\ color_boxes[i].y = 5 + i * (app.rect_size + 5)
        /\ Cardinality(Hits) <= 1
        /\ Hits # {}
              => /\ 0 <= lastEv.x /\ lastEv.x < app.dock_width
                 /\ 0 <= lastEv.y /\ lastEv.y < app.dock_height
        /\ out.returns = <<IF Hits = {} THEN nullptr ELSE CHOOSE i \in Hits : TRUE>>

\* The far corner of the last swatch hits the last swatch on a screen 1000
\* high.
C27_Witness ==
    /\ lastEv.type = "find_box"
    /\ app.rect_size = 50
    /\ lastEv.x = 55
    /\ lastEv.y = 880
    /\ out.returns = <<15>>

\* C28: the panel height computed at startup does not exceed 80% of the
\* screen height.  The code breaks it for every screen height: the 80% are
\* shared out to the edges, and the 17 paddings come on top.
C28_PanelWithinMargin ==
    pc = "loop" => 100 * app.dock_height <= 80 * display_height

\* C29: the rectangle of the menu window opened by a Button3 press on a
\* swatch lies inside the display: 0 <= x, x + MENU_WIDTH <= display width,
\* 0 <= y, y + menu height <= display height.  The code breaks it on
\* displays lower than the panel and on displays narrower than the menu and
\* the panel together.
C29_MenuInsideDisplay ==
    out.menus # <<>> =>
        LET m == out.menus[1]
        IN  /\ m.width = MENU_WIDTH
            /\ m.height = 8 * MENU_ITEM_HEIGHT
            /\ 0 <= m.x
            /\ m.x + m.width <= display_width
            /\ 0 <= m.y
            /\ m.y + m.height <= display_height

====
